---------------------------- MODULE Spec2Model ----------------------------
(***************************************************************************)
(* SQL Canvas (XLSCSV2SQLv2): the database worker (src/src/db.worker.ts),   *)
(* the UI boundary that talks to it (src/src/App.tsx) and the engine state  *)
(* they act on.                                                             *)
(*                                                                          *)
(* db.worker.ts holds two builds of the worker:                             *)
(*   "sqlite"  (lines 1-221): IMPORT_CSV writes the parsed rows straight    *)
(*             into a SQLite table inside one transaction;                  *)
(*   "preview" (lines 222-401, and 402-622 which is the same code with      *)
(*             logging): IMPORT_CSV only posts a preview node.              *)
(* A behaviour is a run of one build; Init picks it.                        *)
(*                                                                          *)
(* Text is modelled as tuples: a table name is <<base, n1, n2, ...>> for    *)
(* the string base_n1_n2..., a cell is a tuple of numbers, the empty cell   *)
(* is <<>>.                                                                 *)
(***************************************************************************)
EXTENDS Integers, Sequences, FiniteSets, TLC

VARIABLES
  build,        \* which build of db.worker.ts runs
  initPc,       \* init(): "loading", then "ready" or "failed"
  sqlite3,      \* module-level `sqlite3` is set (not null)
  db,           \* module-level `db` is set (not null)
  tables,       \* the engine's catalog: table name -> [cols, rows]
  cache,        \* the Staging Cache of the design: id -> full row list
  now,          \* Date.now()
  inbox,        \* requests posted to the worker, not yet handled
  outbox,       \* messages posted by the worker, not yet handled by the UI
  announced,    \* every readiness message the worker has posted, in order
  last,         \* the most recent invocation of self.onmessage
  isReady,      \* App: isReady signal
  nodes,        \* App: nodes store
  sent,         \* number of requests the UI has posted
  uploadedTablesCount, \* App: uploadedTablesCount signal
  uploaded,     \* App: isUploadedToSQLite of each node of the store
  tableList,    \* App: tableList signal
  isXlsModalOpen, \* App: isXlsModalOpen signal
  xlsSheets,    \* App: xlsSheets signal, the sheets of the dropped workbook
  selectedSheets, \* XlsOptionsModal: selectedSheets signal (sheet names)
  rowsToIgnore, \* XlsOptionsModal: rowsToIgnore signal
  checked,      \* XlsOptionsModal: the sheet checkboxes that show a tick
  rPc,          \* getUniqueTableName, step by step: "probing" or "returned"
  rBase,        \*   its argument baseName
  rCatalog,     \*   the table names in sqlite_master
  rDbNull,      \*   db is null
  rFailAt,      \*   which probe throws (0: none)
  rTableName,   \*   local tableName
  rCounter,     \*   local counter
  rProbes       \*   probes issued so far

resolverVars == <<rPc, rBase, rCatalog, rDbNull, rFailAt, rTableName, rCounter, rProbes>>

uploadVars == <<uploadedTablesCount, uploaded, tableList>>

xlsVars == <<isXlsModalOpen, xlsSheets, selectedSheets, rowsToIgnore, checked>>

appVars == <<build, initPc, sqlite3, db, tables, cache, now, inbox, outbox,
             announced, last, isReady, nodes, sent, uploadVars, xlsVars>>

vars == <<appVars, resolverVars>>

-----------------------------------------------------------------------------
(* Bounds of the model *)

MaxLines == 7
MaxRequests == 3
MaxQueue == 2
MaxTicks == 1
Epoch == 100

-----------------------------------------------------------------------------
(* Program constants *)

PreviewRows == 5
SampleRows == 5

-----------------------------------------------------------------------------
(* Text values *)

Blank == <<>>
SqlNull == <<0>>
Cell(i, j) == <<i, j>>

Min(a, b) == IF a < b THEN a ELSE b

Range(s) == {s[i] : i \in 1..Len(s)}

(* A dropped file: n lines; line blankAt (if any) is empty, every fifth line
   has one cell only (its second cell is missing), every other line has two
   cells, and the second cell of every third line is empty. *)
FileLines(n, blankAt) ==
  [i \in 1..n |->
     IF i = blankAt THEN <<Blank>>
     ELSE IF i % 5 = 0 THEN <<Cell(i, 1)>>
     ELSE <<Cell(i, 1), IF i % 3 = 0 THEN Blank ELSE Cell(i, 2)>>]

(* The files the UI drops: an empty file, a header and one row, the same with
   an empty line between them, and a header with MaxLines - 1 rows. *)
Files == {FileLines(0, 0), FileLines(2, 0), FileLines(3, 2), FileLines(MaxLines, 0)}

BaseNames == {<<"a">>, <<"a", 1>>}

(* The number of data rows of a file: its non-empty lines after the header *)
DataRowCount(lines) ==
  LET k == Cardinality({i \in 1..Len(lines) : lines[i] # <<Blank>>})
  IN  IF k = 0 THEN 0 ELSE k - 1

-----------------------------------------------------------------------------
(* Papa.parse(fileText, {header: true, skipEmptyLines: true}) *)

IsEmptyLine(line) == line = <<Blank>>

NotEmptyLine(line) == ~IsEmptyLine(line)

RowObject(fields, line) ==
  [h \in {fields[j] : j \in 1..Min(Len(fields), Len(line))} |->
     line[CHOOSE j \in 1..Len(fields) : fields[j] = h]]

PapaParse(lines) ==
  LET kept == SelectSeq(lines, NotEmptyLine)
  IN  IF kept = <<>>
      THEN [fields |-> <<>>, data |-> <<>>]
      ELSE [fields |-> Head(kept),
            data   |-> [i \in 1..(Len(kept) - 1) |-> RowObject(Head(kept), kept[i + 1])]]

-----------------------------------------------------------------------------
(* Messages *)

NoNode ==
  [data |-> <<>>, id |-> <<>>, title |-> <<>>, schema |-> <<>>, rowCount |-> 0,
   hasData |-> FALSE]

Msg(t, n, b) == [type |-> t, node |-> n, bytes |-> b]

Req(t, f, name, n) == [type |-> t, node |-> n, fileBuffer |-> f, tableName |-> name]

NoCall == [id |-> <<>>, type |-> "none", req |-> Req("none", <<>>, <<>>, NoNode),
           dbNull |-> TRUE, threw |-> FALSE, posted |-> <<>>,
           failedAt |-> 0, at |-> 0, calls |-> <<>>]

(* A schema in the reverse of the header order *)
TextSchemaReversed(headers) ==
  [i \in 1..Len(headers) |-> [type |-> "TEXT", name |-> headers[Len(headers) + 1 - i]]]

TextSchema(headers) == [i \in 1..Len(headers) |-> [type |-> "TEXT", name |-> headers[i]]]

Slice(s, n) == SubSeq(s, 1, Min(n, Len(s)))

-----------------------------------------------------------------------------
(* getUniqueTableName(baseName).  The catalog probe
     db.exec({sql: "SELECT name FROM sqlite_master WHERE ... name=?", bind})
   is taken to yield the matching rows of sqlite_master; it throws when db
   is null (TypeError) or when the engine reports an error, which is the
   probeFailAt-th probe here (0: no probe fails). *)

ProbeThrows(dbNull, probeFailAt, probe) == dbNull \/ probeFailAt = probe

RECURSIVE ProbeLoop(_, _, _, _, _, _)
ProbeLoop(baseName, tableName, counter, dbNull, catalog, probeFailAt) ==
  IF ProbeThrows(dbNull, probeFailAt, counter) THEN tableName
  ELSE IF tableName \notin catalog THEN tableName
  ELSE ProbeLoop(baseName, Append(baseName, counter), counter + 1,
                 dbNull, catalog, probeFailAt)

getUniqueTableName(baseName, dbNull, catalog, probeFailAt) ==
  ProbeLoop(baseName, baseName, 1, dbNull, catalog, probeFailAt)

-----------------------------------------------------------------------------
(* The engine: tables is the catalog, name -> [cols, rows] *)

DropTableIfExists(tbls, name) == [n \in (DOMAIN tbls) \ {name} |-> tbls[n]]

CreateTable(tbls, name, headers) ==
  [n \in (DOMAIN tbls) \cup {name} |->
     IF n = name THEN [cols |-> TextSchema(headers), rows |-> <<>>] ELSE tbls[n]]

(* headers.map(h => row[h] ?? null): only a missing cell becomes null *)
InsertValuesKeepsBlank(headers, row) ==
  [i \in 1..Len(headers) |->
     IF headers[i] \in DOMAIN row THEN row[headers[i]] ELSE SqlNull]

(* headers.map(h => row[h] || null): every cell is a string (no dynamicTyping),
   and the empty string is the only string that is falsy *)
InsertValues(headers, row) ==
  [i \in 1..Len(headers) |->
     IF headers[i] \in DOMAIN row /\ row[headers[i]] # Blank
     THEN row[headers[i]] ELSE SqlNull]

(* data.forEach(row => db.exec({sql: insertSql, bind: values})), rows 1..upTo *)
InsertRows(tbls, name, headers, data, upTo) ==
  [tbls EXCEPT ![name].rows = [i \in 1..upTo |-> InsertValues(headers, data[i])]]

(* A ROLLBACK that also undoes the creation of the tables left empty *)
RollbackUndoesCreate(atBegin, current) ==
  [n \in {t \in DOMAIN atBegin : atBegin[t].rows # <<>>} |-> atBegin[n]]

(* A ROLLBACK that undoes nothing *)
RollbackKeepsRows(atBegin, current) == current

(* db.exec('ROLLBACK;'): the engine returns to the state at BEGIN *)
Rollback(atBegin, current) == atBegin

(* db.exec('COMMIT;') *)
Commit(atBegin, current) == current

(* The statements a handler passes to db.exec, in order: <<statement, row,
   succeeded>>, row being the index of the data row of an INSERT (0 otherwise) *)
Call(stmt, row, ok) == <<stmt, row, ok>>

(* The inserts of data.forEach up to the one that throws *)
InsertCalls(upTo, insertFailAt) ==
  [i \in 1..upTo |-> Call("INSERT", i, i # insertFailAt)]

(* A bulk insert whose failure path commits what was inserted so far *)
BulkInsertCommitsOnFailure(tbls, name, headers, data, insertFailAt) ==
  IF insertFailAt \in 1..Len(data)
  THEN [tables |-> Commit(tbls, InsertRows(tbls, name, headers, data, insertFailAt - 1)),
        ok |-> FALSE,
        calls |-> <<Call("BEGIN", 0, TRUE)>> \o InsertCalls(insertFailAt, insertFailAt)
                    \o <<Call("COMMIT", 0, TRUE)>>]
  ELSE [tables |-> Commit(tbls, InsertRows(tbls, name, headers, data, Len(data))),
        ok |-> TRUE,
        calls |-> <<Call("BEGIN", 0, TRUE)>> \o InsertCalls(Len(data), 0)
                    \o <<Call("COMMIT", 0, TRUE)>>]

(* The bulk insert of handleImportCsv (build "sqlite"): the insertFailAt-th
   insert throws (0, or more than the number of rows: none does). *)
BulkInsert(tbls, name, headers, data, insertFailAt) ==
  IF insertFailAt \in 1..Len(data)
  THEN [tables |-> Rollback(tbls, InsertRows(tbls, name, headers, data, insertFailAt - 1)),
        ok |-> FALSE,
        calls |-> <<Call("BEGIN", 0, TRUE)>> \o InsertCalls(insertFailAt, insertFailAt)
                    \o <<Call("ROLLBACK", 0, TRUE)>>]
  ELSE [tables |-> Commit(tbls, InsertRows(tbls, name, headers, data, Len(data))),
        ok |-> TRUE,
        calls |-> <<Call("BEGIN", 0, TRUE)>> \o InsertCalls(Len(data), 0)
                    \o <<Call("COMMIT", 0, TRUE)>>]

(* A node whose rowCount is the length of the PRAGMA table_info result *)
NodeOfTableCountsColumns(tbls, name) ==
  [data |-> <<>>, id |-> name, title |-> name, schema |-> tbls[name].cols,
   rowCount |-> Len(tbls[name].cols), hasData |-> FALSE]

(* createAndPostNode(tableName, position): PRAGMA table_info and SELECT COUNT *)
NodeOfTable(tbls, name) ==
  [data |-> <<>>, id |-> name, title |-> name, schema |-> tbls[name].cols,
   rowCount |-> Len(tbls[name].rows), hasData |-> FALSE]

createAndPostNode(tbls, name, dbNull) ==
  IF dbNull THEN <<>> ELSE <<Msg("NODE_CREATED", NodeOfTable(tbls, name), <<>>)>>

(* The outcome of one handler invocation *)
Outcome(tbls, posted, threw, id, failedAt) ==
  [tables |-> tbls, id |-> id, threw |-> threw, posted |-> posted, failedAt |-> failedAt,
   calls |-> <<>>]

(* handleImportCsv, build "sqlite" *)
handleImportCsvSqlite(payload, probeFailAt, insertFailAt) ==
  LET parseResult == PapaParse(payload.fileBuffer)
      headers == parseResult.fields
      data == parseResult.data
      tableName == getUniqueTableName(payload.tableName, ~db, DOMAIN tables, probeFailAt)
      dropped == DropTableIfExists(tables, tableName)
      created == CreateTable(dropped, tableName, headers)
      bulk == BulkInsert(created, tableName, headers, data, insertFailAt)
      ddl == <<Call("DROP", 0, TRUE), Call("CREATE", 0, headers # <<>>)>>
  IN  IF ~db THEN Outcome(tables, <<>>, TRUE, tableName, 0)
      ELSE IF headers = <<>>
      THEN [Outcome(dropped, <<>>, TRUE, tableName, 0) EXCEPT !.calls = ddl]
      ELSE IF ~bulk.ok
      THEN [Outcome(bulk.tables, <<>>, FALSE, tableName, insertFailAt)
              EXCEPT !.calls = ddl \o bulk.calls]
      ELSE [Outcome(bulk.tables, createAndPostNode(bulk.tables, tableName, ~db),
                    FALSE, tableName, 0)
              EXCEPT !.calls = ddl \o bulk.calls]

(* `${originalTableName}_${Date.now()}` *)
TimestampName(baseName, t) == Append(baseName, t)

(* A preview that is the whole dataset *)
PreviewDataUnsliced(data) == data

(* data.slice(0, 5) *)
PreviewData(data) == Slice(data, PreviewRows)

(* rowCount: data.length *)
PreviewRowCount(data) == Len(data)

(* handleImportCsv, build "preview" *)
handleImportCsvPreview(payload) ==
  LET parseResult == PapaParse(payload.fileBuffer)
      headers == parseResult.fields
      data == parseResult.data
      tableName == TimestampName(payload.tableName, now)
      nodeData == [data |-> PreviewData(data),
                   id |-> tableName, title |-> tableName,
                   schema |-> TextSchema(headers),
                   rowCount |-> PreviewRowCount(data),
                   hasData |-> TRUE]
  IN  Outcome(tables, <<Msg("NODE_CREATED", nodeData, <<>>)>>, FALSE, tableName, 0)

XYZ == <<"X", "Y", "Z">>

(* (Math.random() * 100).toFixed(2), five rows of it *)
SampleData(seed) ==
  [i \in 1..SampleRows |-> [h \in Range(XYZ) |-> Cell(seed, i)]]

Seeds == {1, 2}

(* handleCreateTestTable *)
handleCreateTestTable(seed) ==
  LET tableName == TimestampName(<<"test_table">>, now)
      nodeData == [data |-> IF build = "preview" THEN SampleData(seed) ELSE <<>>,
                   id |-> tableName, title |-> tableName,
                   schema |-> TextSchema(XYZ), rowCount |-> SampleRows,
                   hasData |-> (build = "preview")]
  IN  Outcome(tables, <<Msg("NODE_CREATED", nodeData, <<>>)>>, FALSE, tableName, 0)

(* An export that leaves the database it serialized empty *)
handleExportDatabaseClears ==
  IF ~sqlite3 \/ ~db THEN Outcome(tables, <<>>, TRUE, <<>>, 0)
  ELSE Outcome(<<>>, <<Msg("DATABASE_EXPORTED", NoNode, tables)>>, FALSE, <<>>, 0)

(* handleExportDatabase: sqlite3.capi.sqlite3_js_db_export(db.pointer) *)
handleExportDatabase ==
  IF ~sqlite3 \/ ~db THEN Outcome(tables, <<>>, TRUE, <<>>, 0)
  ELSE Outcome(tables, <<Msg("DATABASE_EXPORTED", NoNode, tables)>>, FALSE, <<>>, 0)

(* A default case that raises *)
handleNothingThrows == Outcome(tables, <<>>, TRUE, <<>>, 0)

(* The cases of the switch that do nothing: UPDATE_POSITION and default *)
handleNothing == Outcome(tables, <<>>, FALSE, <<>>, 0)

-----------------------------------------------------------------------------
(* The worker *)

MaxProbeFault == 2

Init ==
  /\ build \in {"sqlite", "preview"}
  /\ initPc = "loading"
  /\ sqlite3 = FALSE
  /\ db = FALSE
  /\ tables = <<>>
  /\ cache = <<>>
  /\ now = Epoch
  /\ inbox = <<>>
  /\ outbox = <<>>
  /\ announced = <<>>
  /\ last = NoCall
  /\ isReady = FALSE
  /\ nodes = <<>>
  /\ sent = 0
  /\ uploadedTablesCount = 0
  /\ uploaded = <<>>
  /\ tableList = <<>>
  /\ isXlsModalOpen = FALSE
  /\ xlsSheets = <<>>
  /\ selectedSheets = <<>>
  /\ rowsToIgnore = 0
  /\ checked = {}
  /\ rPc = "idle"
  /\ rBase = <<>>
  /\ rCatalog = {}
  /\ rDbNull = FALSE
  /\ rFailAt = 0
  /\ rTableName = <<>>
  /\ rCounter = 1
  /\ rProbes = 0

(* An init() that is run again after it failed *)
InitReadyAfterFailure ==
  /\ initPc \in {"loading", "failed"}
  /\ initPc' = "ready"
  /\ sqlite3' = TRUE
  /\ db' = TRUE
  /\ outbox' = Append(outbox, Msg("DB_READY", NoNode, <<>>))
  /\ announced' = Append(announced, "DB_READY")
  /\ UNCHANGED <<build, tables, cache, now, inbox, last, isReady, nodes, sent, resolverVars, uploadVars, xlsVars>>

(* init(): sqlite3InitModule() resolved and new DB() returned *)
InitReady ==
  /\ initPc = "loading"
  /\ initPc' = "ready"
  /\ sqlite3' = TRUE
  /\ db' = TRUE
  /\ outbox' = Append(outbox, Msg("DB_READY", NoNode, <<>>))
  /\ announced' = Append(announced, "DB_READY")
  /\ UNCHANGED <<build, tables, cache, now, inbox, last, isReady, nodes, sent, resolverVars, uploadVars, xlsVars>>

(* init(): sqlite3InitModule() rejected *)
InitModuleFails ==
  /\ initPc = "loading"
  /\ initPc' = "failed"
  /\ outbox' = Append(outbox, Msg("DB_ERROR", NoNode, <<>>))
  /\ announced' = Append(announced, "DB_ERROR")
  /\ UNCHANGED <<build, sqlite3, db, tables, cache, now, inbox, last, isReady, nodes,
                 sent, resolverVars, uploadVars, xlsVars>>

(* An init() that posts DB_READY before it opens the database *)
InitDbFailsAfterReady ==
  /\ initPc = "loading"
  /\ initPc' = "failed"
  /\ sqlite3' = TRUE
  /\ outbox' = outbox \o <<Msg("DB_READY", NoNode, <<>>), Msg("DB_ERROR", NoNode, <<>>)>>
  /\ announced' = announced \o <<"DB_READY", "DB_ERROR">>
  /\ UNCHANGED <<build, db, tables, cache, now, inbox, last, isReady, nodes, sent,
                 resolverVars, uploadVars, xlsVars>>

(* init(): the module loaded, new sqlite3.oo1.DB() threw *)
InitDbFails ==
  /\ initPc = "loading"
  /\ initPc' = "failed"
  /\ sqlite3' = TRUE
  /\ outbox' = Append(outbox, Msg("DB_ERROR", NoNode, <<>>))
  /\ announced' = Append(announced, "DB_ERROR")
  /\ UNCHANGED <<build, db, tables, cache, now, inbox, last, isReady, nodes, sent,
                 resolverVars, uploadVars, xlsVars>>

(* A handler whose responses overtake the messages posted before them *)
HandledOutOfOrder(out) ==
  /\ tables' = out.tables
  /\ outbox' = out.posted \o outbox
  /\ last' = [id |-> out.id, type |-> Head(inbox).type, req |-> Head(inbox),
              dbNull |-> ~db, threw |-> out.threw, posted |-> out.posted,
              failedAt |-> out.failedAt, at |-> now, calls |-> out.calls]
  /\ inbox' = Tail(inbox)
  /\ UNCHANGED <<build, initPc, sqlite3, db, cache, now, announced, isReady, nodes,
                 sent, resolverVars, uploadVars, xlsVars>>

(* self.onmessage has run the handler of the request at the head of the queue *)
Handled(out) ==
  /\ tables' = out.tables
  /\ outbox' = outbox \o out.posted
  /\ last' = [id |-> out.id, type |-> Head(inbox).type, req |-> Head(inbox),
              dbNull |-> ~db, threw |-> out.threw, posted |-> out.posted,
              failedAt |-> out.failedAt, at |-> now, calls |-> out.calls]
  /\ inbox' = Tail(inbox)
  /\ UNCHANGED <<build, initPc, sqlite3, db, cache, now, announced, isReady, nodes,
                 sent, resolverVars, uploadVars, xlsVars>>

OnImportCsvSqlite ==
  /\ inbox # <<>>
  /\ Head(inbox).type = "IMPORT_CSV"
  /\ build = "sqlite"
  /\ \E probeFailAt \in 0..MaxProbeFault, insertFailAt \in 0..MaxLines :
       Handled(handleImportCsvSqlite(Head(inbox), probeFailAt, insertFailAt))

OnImportCsvPreview ==
  /\ inbox # <<>>
  /\ Head(inbox).type = "IMPORT_CSV"
  /\ build = "preview"
  /\ Handled(handleImportCsvPreview(Head(inbox)))

OnCreateTestTable ==
  /\ inbox # <<>>
  /\ Head(inbox).type = "CREATE_TEST_TABLE"
  /\ \E seed \in Seeds : Handled(handleCreateTestTable(seed))

OnUpdatePosition ==
  /\ inbox # <<>>
  /\ Head(inbox).type = "UPDATE_POSITION"
  /\ Handled(handleNothing)

OnExportDatabase ==
  /\ inbox # <<>>
  /\ Head(inbox).type = "EXPORT_DATABASE"
  /\ Handled(handleExportDatabase)

RouterCases == {"IMPORT_CSV", "CREATE_TEST_TABLE", "UPDATE_POSITION", "EXPORT_DATABASE"}

(* default: console.log("Unknown message type:", type) *)
OnUnknown ==
  /\ inbox # <<>>
  /\ Head(inbox).type \notin RouterCases
  /\ Handled(handleNothing)

-----------------------------------------------------------------------------
(* The UI (App.tsx) *)

Post(request) ==
  /\ sent < MaxRequests
  /\ Len(inbox) < MaxQueue
  /\ inbox' = Append(inbox, request)
  /\ sent' = sent + 1
  /\ UNCHANGED <<build, initPc, sqlite3, db, tables, cache, now, outbox, announced,
                 last, isReady, nodes, resolverVars, uploadVars, xlsVars>>

(* handleDrop, a .csv file *)
UiDropCsv ==
  \E f \in Files, name \in BaseNames : Post(Req("IMPORT_CSV", f, name, NoNode))

(* handleCreateTestTable *)
UiCreateTestTable ==
  /\ isReady
  /\ Post(Req("CREATE_TEST_TABLE", <<>>, <<>>, NoNode))

(* handleSaveDatabase, behind a button that is disabled until isReady *)
UiSaveDatabase ==
  /\ isReady
  /\ Post(Req("EXPORT_DATABASE", <<>>, <<>>, NoNode))

(* handleViewTables, behind a button that is disabled until isReady *)
UiViewTables ==
  /\ isReady
  /\ Post(Req("LIST_TABLES", <<>>, <<>>, NoNode))

(* handleUploadToSQLite(nodeToUpload) *)
UiUploadToSQLite ==
  /\ isReady
  /\ \E i \in 1..Len(nodes) : Post(Req("UPLOAD_TO_SQLITE", <<>>, <<>>, nodes[i]))

(* handleDeleteTable(tableName), once the user has confirmed; the table modal
   it is passed to opens from a button that is disabled until isReady *)
UiDeleteTable ==
  /\ isReady
  /\ \E name \in BaseNames : Post(Req("DROP_TABLE", <<>>, name, NoNode))

(* handlePositionChange of the first App: posts UPDATE_POSITION *)
UiPositionChange ==
  /\ \E i \in 1..Len(nodes) : Post(Req("UPDATE_POSITION", <<>>, nodes[i].id, NoNode))

(* The payload fields of the messages the UI reads besides node and dbBytes:
   payload.node.isUploadedToSQLite, payload.success with payload.tableName,
   and payload.tables. A worker of src/ sets none of them. *)
NodeCreated(node, isUploadedToSQLite) ==
  Msg("NODE_CREATED", node, IF isUploadedToSQLite THEN <<TRUE>> ELSE <<>>)

UploadStatus(success, tableName) ==
  Msg("UPLOAD_STATUS", [NoNode EXCEPT !.id = tableName], <<success>>)

TableList(names) == Msg("TABLE_LIST", NoNode, names)

(* payload.node.isUploadedToSQLite is truthy *)
NodeIsUploaded(m) == m.type = "NODE_CREATED" /\ m.bytes = <<TRUE>>

(* payload.success && payload.tableName *)
UploadSucceeded(m) ==
  m.type = "UPLOAD_STATUS" /\ m.bytes = <<TRUE>> /\ m.node.id # <<>>

(* setNodes((node) => node.id === payload.tableName, "isUploadedToSQLite", true) *)
MarkUploaded(flags, tableName) ==
  [i \in 1..Len(flags) |-> flags[i] \/ nodes[i].id = tableName]

(* worker.onmessage *)
UiOnMessage ==
  /\ outbox # <<>>
  /\ outbox' = Tail(outbox)
  /\ isReady' = (isReady \/ Head(outbox).type = "DB_READY")
  /\ nodes' = IF Head(outbox).type = "NODE_CREATED"
              THEN Append(nodes, Head(outbox).node) ELSE nodes
  /\ uploaded' = IF Head(outbox).type = "NODE_CREATED"
                 THEN Append(uploaded, NodeIsUploaded(Head(outbox)))
                 ELSE IF UploadSucceeded(Head(outbox))
                      THEN MarkUploaded(uploaded, Head(outbox).node.id)
                      ELSE uploaded
  /\ uploadedTablesCount' =
       IF NodeIsUploaded(Head(outbox)) \/ UploadSucceeded(Head(outbox))
       THEN uploadedTablesCount + 1
       ELSE IF Head(outbox).type = "TABLE_LIST"
            THEN Len(Head(outbox).bytes)
            ELSE uploadedTablesCount
  /\ tableList' = IF Head(outbox).type = "TABLE_LIST"
                  THEN Head(outbox).bytes ELSE tableList
  /\ UNCHANGED <<build, initPc, sqlite3, db, tables, cache, now, inbox, announced,
                 last, sent, resolverVars, xlsVars>>

(* Date.now() moves on *)
Tick ==
  /\ now < Epoch + MaxTicks
  /\ now' = now + 1
  /\ UNCHANGED <<build, initPc, sqlite3, db, tables, cache, inbox, outbox, announced,
                 last, isReady, nodes, sent, resolverVars, uploadVars, xlsVars>>

Next ==
  \/ InitReady
  \/ InitModuleFails
  \/ InitDbFails
  \/ OnImportCsvSqlite
  \/ OnImportCsvPreview
  \/ OnCreateTestTable
  \/ OnUpdatePosition
  \/ OnExportDatabase
  \/ OnUnknown
  \/ UiDropCsv
  \/ UiCreateTestTable
  \/ UiSaveDatabase
  \/ UiViewTables
  \/ UiUploadToSQLite
  \/ UiDeleteTable
  \/ UiPositionChange
  \/ UiOnMessage
  \/ Tick

Spec == Init /\ [][Next]_vars

(* init() runs to its end: the promise of sqlite3InitModule() settles *)
InitSettles == InitReady \/ InitModuleFails \/ InitDbFails

LiveSpec == Spec /\ WF_vars(InitSettles)

(* handleSaveDatabase called by a caller other than the Save button: the
   function itself does not look at isReady *)
ClientSaveDatabase == Post(Req("EXPORT_DATABASE", <<>>, <<>>, NoNode))

(* The worker and its UI, with handleSaveDatabase open to any caller *)
WorkerNext == Next \/ ClientSaveDatabase

WorkerSpec == Init /\ [][WorkerNext]_vars

-----------------------------------------------------------------------------
(* worker.onmessage under every worker: the messages it reads arrive in any
   order and number, the node store and the counter up to a bound. *)

NodeIds == {<<"a">>, <<"b">>}

StubNode(id) == [NoNode EXCEPT !.id = id, !.title = id]

WorkerMessages ==
  {NodeCreated(StubNode(id), f) : id \in NodeIds, f \in BOOLEAN}
    \cup {UploadStatus(ok, name) : ok \in BOOLEAN, name \in NodeIds \cup {<<>>}}
    \cup {TableList(names) : names \in {<<>>, <<<<"a">>>>, <<<<"a">>, <<"b">>>>}}

(* The number of node and upload messages on their way to the UI *)
Pending(type) == Cardinality({k \in 1..Len(outbox) : outbox[k].type = type})

(* event.data of worker.onmessage: the worker has posted a message *)
WorkerPosts ==
  /\ Len(outbox) < MaxQueue
  /\ \E m \in WorkerMessages :
       /\ m.type = "NODE_CREATED" => Len(nodes) + Pending("NODE_CREATED") < MaxQueue
       /\ m.type = "UPLOAD_STATUS"
            => uploadedTablesCount + Pending("UPLOAD_STATUS") < MaxRequests
       /\ outbox' = Append(outbox, m)
  /\ UNCHANGED <<build, initPc, sqlite3, db, tables, cache, now, inbox, announced,
                 last, isReady, nodes, sent, resolverVars, uploadVars, xlsVars>>

UiNext == UiOnMessage \/ WorkerPosts

UiSpec == Init /\ [][UiNext]_vars

-----------------------------------------------------------------------------
(* The spreadsheet import: XlsOptionsModal and handleXlsImport *)

MaxSkip == 2
MaxSelected == 3

(* SheetInfo: { name, data }, data the rows of sheet_to_json(header: 1) *)
Sheet(name, data) == <<name, data>>

SheetName(s) == s[1]

SheetData(s) == s[2]

SheetRows(seed, n) == [i \in 1..n |-> <<Cell(seed + i, 1), Cell(seed + i, 2)>>]

(* The workbooks a user drops: two of them have a sheet of the same name *)
Workbooks ==
  {<<Sheet(<<"a">>, SheetRows(10, 3)), Sheet(<<"b">>, SheetRows(20, 1))>>,
   <<Sheet(<<"a">>, SheetRows(30, 2))>>}

(* Object.keys of a row object: the header cells, each once, in the order
   of their first occurrence *)
ObjectKeys(headers) ==
  LET first == {i \in 1..Len(headers) : \A j \in 1..(i - 1) : headers[j] # headers[i]}
      nth(k) == CHOOSE i \in first : Cardinality({j \in first : j <= i}) = k
  IN  [k \in 1..Cardinality(first) |-> headers[nth(k)]]

(* headers.forEach((header, i) => { obj[header] = row[i]; }), then the value
   unparse writes for the key: the last column of that header, empty when
   the row has no such cell *)
ObjectValue(headers, row, key) ==
  LET i == CHOOSE c \in 1..Len(headers) :
             headers[c] = key /\ \A d \in (c + 1)..Len(headers) : headers[d] # key
  IN  IF i <= Len(row) THEN row[i] ELSE Blank

(* Papa.unparse(dataAsObjects, { header: true }): the keys of the first
   object as the header line, then one line per object; no object, no text *)
PapaUnparse(headers, dataRows) ==
  IF dataRows = <<>> THEN <<>>
  ELSE <<ObjectKeys(headers)>> \o
       [r \in 1..Len(dataRows) |->
          [k \in 1..Len(ObjectKeys(headers)) |->
             ObjectValue(headers, dataRows[r], ObjectKeys(headers)[k])]]

(* sheet.data.slice(rowsToIgnore) *)
SliceFrom(s, n) == SubSeq(s, n + 1, Len(s))

(* handleXlsImport: the requests it posts, in order *)
handleXlsImport(sheets, skip) ==
  LET HasRows(s) == SliceFrom(SheetData(s), skip) # <<>>
      kept == SelectSeq(sheets, HasRows)
      dataToProcess(s) == SliceFrom(SheetData(s), skip)
  IN  [i \in 1..Len(kept) |->
         Req("IMPORT_CSV",
             PapaUnparse(dataToProcess(kept[i])[1], SliceFrom(dataToProcess(kept[i]), 1)),
             SheetName(kept[i]), NoNode)]

(* handleCheckboxChange *)
handleCheckboxChange(sheetName, isChecked) ==
  LET Other(name) == name # sheetName
  IN  IF isChecked THEN Append(selectedSheets, sheetName)
      ELSE SelectSeq(selectedSheets, Other)

(* handleImportClick: props.sheets.filter(s => selectedSheets().includes(s.name)) *)
sheetsToImport ==
  LET Selected(s) == SheetName(s) \in Range(selectedSheets)
  IN  SelectSeq(xlsSheets, Selected)

(* handleDrop, an .xls or .xlsx file *)
XlsDrop ==
  /\ ~isXlsModalOpen
  /\ \E workbook \in Workbooks : xlsSheets' = workbook
  /\ isXlsModalOpen' = TRUE
  /\ UNCHANGED <<build, initPc, sqlite3, db, tables, cache, now, inbox, outbox,
                 announced, last, isReady, nodes, sent, resolverVars, uploadVars,
                 selectedSheets, rowsToIgnore, checked>>

(* The user clicks the checkbox of a sheet *)
XlsCheckbox ==
  /\ isXlsModalOpen
  /\ \E i \in 1..Len(xlsSheets) :
       LET name == SheetName(xlsSheets[i])
       IN  /\ name \notin checked => Len(selectedSheets) < MaxSelected
           /\ checked' = IF name \in checked THEN checked \ {name}
                         ELSE checked \cup {name}
           /\ selectedSheets' = handleCheckboxChange(name, name \notin checked)
  /\ UNCHANGED <<build, initPc, sqlite3, db, tables, cache, now, inbox, outbox,
                 announced, last, isReady, nodes, sent, resolverVars, uploadVars,
                 isXlsModalOpen, xlsSheets, rowsToIgnore>>

(* onInput of "Rows to ignore from top" *)
XlsRowsToIgnore ==
  /\ isXlsModalOpen
  /\ \E k \in 0..MaxSkip : k # rowsToIgnore /\ rowsToIgnore' = k
  /\ UNCHANGED <<build, initPc, sqlite3, db, tables, cache, now, inbox, outbox,
                 announced, last, isReady, nodes, sent, resolverVars, uploadVars,
                 isXlsModalOpen, xlsSheets, selectedSheets, checked>>

(* handleImportClick, behind a button that is disabled while selectedSheets
   is empty; closing the modal removes its checkboxes *)
XlsImportClick ==
  /\ isXlsModalOpen
  /\ selectedSheets # <<>>
  /\ LET requests == IF sheetsToImport # <<>>
                     THEN handleXlsImport(sheetsToImport, rowsToIgnore) ELSE <<>>
     IN  /\ sent + Len(requests) <= MaxRequests
         /\ inbox' = inbox \o requests
         /\ sent' = sent + Len(requests)
  /\ isXlsModalOpen' = FALSE
  /\ checked' = {}
  /\ UNCHANGED <<build, initPc, sqlite3, db, tables, cache, now, outbox,
                 announced, last, isReady, nodes, resolverVars, uploadVars,
                 xlsSheets, selectedSheets, rowsToIgnore>>

(* onClose from the close button *)
XlsClose ==
  /\ isXlsModalOpen
  /\ isXlsModalOpen' = FALSE
  /\ checked' = {}
  /\ UNCHANGED <<build, initPc, sqlite3, db, tables, cache, now, inbox, outbox,
                 announced, last, isReady, nodes, sent, resolverVars, uploadVars,
                 xlsSheets, selectedSheets, rowsToIgnore>>

XlsNext == XlsDrop \/ XlsCheckbox \/ XlsRowsToIgnore \/ XlsImportClick \/ XlsClose

XlsSpec == Init /\ [][XlsNext]_vars

-----------------------------------------------------------------------------
(* getUniqueTableName, one iteration of its while (true) per step: the
   specification of the loop alone, over every catalog of candidate names. *)

MaxSuffix == 3

CandidateNames ==
  BaseNames \cup {Append(b, k) : b \in BaseNames, k \in 1..MaxSuffix}

ResolverInit ==
  /\ build = "sqlite"
  /\ initPc = "ready"
  /\ sqlite3 = TRUE
  /\ db = TRUE
  /\ tables = <<>>
  /\ cache = <<>>
  /\ now = Epoch
  /\ inbox = <<>>
  /\ outbox = <<>>
  /\ announced = <<"DB_READY">>
  /\ last = NoCall
  /\ isReady = FALSE
  /\ nodes = <<>>
  /\ sent = 0
  /\ uploadedTablesCount = 0
  /\ uploaded = <<>>
  /\ tableList = <<>>
  /\ isXlsModalOpen = FALSE
  /\ xlsSheets = <<>>
  /\ selectedSheets = <<>>
  /\ rowsToIgnore = 0
  /\ checked = {}
  /\ rPc = "probing"
  /\ rBase \in BaseNames
  /\ rCatalog \in SUBSET CandidateNames
  /\ rDbNull \in BOOLEAN
  /\ rFailAt \in 0..MaxProbeFault
  /\ rTableName = rBase
  /\ rCounter = 1
  /\ rProbes = 0

(* A catch that goes round the loop again *)
ProbeFailedRetries ==
  /\ rPc = "probing"
  /\ ProbeThrows(rDbNull, rFailAt, rProbes + 1)
  /\ UNCHANGED vars

(* catch (error) { return tableName; } *)
ProbeFailed ==
  /\ rPc = "probing"
  /\ ProbeThrows(rDbNull, rFailAt, rProbes + 1)
  /\ rPc' = "returned"
  /\ rProbes' = rProbes + 1
  /\ UNCHANGED <<appVars, rBase, rCatalog, rDbNull, rFailAt, rTableName, rCounter>>

(* if (result.length === 0) return tableName; *)
ProbeFree ==
  /\ rPc = "probing"
  /\ ~ProbeThrows(rDbNull, rFailAt, rProbes + 1)
  /\ rTableName \notin rCatalog
  /\ rPc' = "returned"
  /\ rProbes' = rProbes + 1
  /\ UNCHANGED <<appVars, rBase, rCatalog, rDbNull, rFailAt, rTableName, rCounter>>

(* tableName = `${baseName}_${counter}`; counter++; *)
ProbeTaken ==
  /\ rPc = "probing"
  /\ ~ProbeThrows(rDbNull, rFailAt, rProbes + 1)
  /\ rTableName \in rCatalog
  /\ rTableName' = Append(rBase, rCounter)
  /\ rCounter' = rCounter + 1
  /\ rProbes' = rProbes + 1
  /\ UNCHANGED <<appVars, rPc, rBase, rCatalog, rDbNull, rFailAt>>

ResolverNext == ProbeFailed \/ ProbeFree \/ ProbeTaken

(* The loop is synchronous code: while it can take an iteration it does. *)
ResolverSpec == ResolverInit /\ [][ResolverNext]_vars /\ WF_vars(ResolverNext)

-----------------------------------------------------------------------------
(* Claims *)

(* The k-th non-empty line of a file *)
NthNonEmptyLine(lines, k) ==
  lines[CHOOSE p \in 1..Len(lines) :
          /\ lines[p] # <<Blank>>
          /\ Cardinality({q \in 1..p : lines[q] # <<Blank>>}) = k]

(* The NODE_CREATED nodes the worker has posted: those the UI holds and those
   still on their way to it *)
PostedNodes ==
  nodes \o [i \in 1..Len(SelectSeq(outbox, LAMBDA m : m.type = "NODE_CREATED")) |->
              SelectSeq(outbox, LAMBDA m : m.type = "NODE_CREATED")[i].node]

(* The first name of baseName, baseName_1, baseName_2, ... not in the catalog *)
Candidate(baseName, k) == IF k = 0 THEN baseName ELSE Append(baseName, k)

FirstUnused(baseName, catalog) ==
  Candidate(baseName,
            CHOOSE k \in 0..Cardinality(catalog) :
              /\ Candidate(baseName, k) \notin catalog
              /\ \A j \in 0..(k - 1) : Candidate(baseName, j) \in catalog)

EngineUnavailableResponse(m) ==
  m.type \in {"ERROR", "UPLOAD_STATUS"} /\ m.bytes = "EngineUnavailable"

(* C1: a commit (UPLOAD_TO_SQLITE) of a dataset of N rows, N more than the
   preview's 5, leaves a table named by its id that holds exactly N rows. *)
C1_CommitWritesFullDataset ==
  (last.type = "UPLOAD_TO_SQLITE" /\ last.req.node.rowCount > PreviewRows)
    => /\ last.req.node.id \in DOMAIN tables
       /\ Len(tables[last.req.node.id].rows) = last.req.node.rowCount

(* C2: an import of a file with N data rows posts one preview record whose
   rowCount is N and whose data are the first min(5, N) data rows of the file,
   in the file's order (build "preview"). *)
C2_PreviewRecord ==
  (build = "preview" /\ last.type = "IMPORT_CSV")
    => LET lines == last.req.fileBuffer
           N == DataRowCount(lines)
       IN  /\ Len(last.posted) = 1
           /\ last.posted[1].type = "NODE_CREATED"
           /\ last.posted[1].node.rowCount = N
           /\ Len(last.posted[1].node.data) = Min(PreviewRows, N)
           /\ \A i \in 1..Len(last.posted[1].node.data) :
                \A j \in 1..Len(NthNonEmptyLine(lines, 1)) :
                  IF j <= Len(NthNonEmptyLine(lines, i + 1))
                  THEN last.posted[1].node.data[i][NthNonEmptyLine(lines, 1)[j]]
                         = NthNonEmptyLine(lines, i + 1)[j]
                  ELSE NthNonEmptyLine(lines, 1)[j]
                         \notin DOMAIN last.posted[1].node.data[i]

C2_Witness ==
  /\ build = "preview"
  /\ last.type = "IMPORT_CSV"
  /\ DataRowCount(last.req.fileBuffer) > PreviewRows
  /\ Len(last.posted[1].node.data) = PreviewRows

(* C3: after an import that answered with a preview of N rows, the Staging
   Cache holds an entry under the preview's id, and it holds N rows. *)
C3_StagedAfterImport ==
  (last.type = "IMPORT_CSV" /\ last.posted # <<>>)
    => /\ last.posted[1].node.id \in DOMAIN cache
       /\ Len(cache[last.posted[1].node.id]) = last.posted[1].node.rowCount

(* C4: when the K-th insert of a bulk write fails, the destination table
   holds no row once the handler has returned. *)
C4_Atomicity ==
  (last.type = "IMPORT_CSV" /\ last.failedAt > 0)
    => /\ last.id \in DOMAIN tables
       /\ tables[last.id].rows = <<>>

C4_Witness ==
  /\ last.type = "IMPORT_CSV"
  /\ last.failedAt > 2
  /\ last.id \in DOMAIN tables

(* C5: after a bulk write of a dataset failed on a row and was rolled back,
   the next attempt to write the same dataset, with no insert failing,
   succeeds under the same id. *)
C5_RetrySameId ==
  [][(/\ last.type = "IMPORT_CSV"
      /\ last.failedAt > 0
      /\ last'.type = "IMPORT_CSV"
      /\ last'.req = last.req
      /\ last'.failedAt = 0
      /\ ~last'.threw)
       => (last'.id = last.id /\ last'.posted # <<>>)]_vars

(* C6: the ids of all the nodes the worker has created are pairwise
   distinct. *)
C6_IdsDistinct ==
  \A i, j \in 1..Len(PostedNodes) :
    i # j => PostedNodes[i].id # PostedNodes[j].id

(* C7: the probing resolver returns the first name of B, B_1, B_2, ... that
   is not in the catalog (build "sqlite"). *)
C7_FirstUnused ==
  [][(/\ build = "sqlite"
      /\ inbox # <<>>
      /\ Head(inbox).type = "IMPORT_CSV"
      /\ inbox' = Tail(inbox))
       => last'.id = FirstUnused(Head(inbox).tableName, DOMAIN tables)]_vars

(* C8: getUniqueTableName returns: its loop ends after at most one probe per
   name in the catalog and one more, also when a probe throws, and with the
   value the handlers use. *)
C8_ResolverTerminates ==
  /\ <>(rPc = "returned")
  /\ [](rProbes <= Cardinality(rCatalog) + 1)
  /\ [](rPc = "returned"
          => rTableName = getUniqueTableName(rBase, rDbNull, rCatalog, rFailAt))

C8_Witness ==
  /\ rPc = "returned"
  /\ rProbes >= 2
  /\ rFailAt = rProbes

(* C9: a request handled while db is null is answered by exactly one
   EngineUnavailable response. *)
C9_RejectedWhenNotReady ==
  (last.type # "none" /\ last.dbNull)
    => /\ Len(last.posted) = 1
       /\ EngineUnavailableResponse(last.posted[1])

(* C10: init() ends, and the worker has posted no readiness message while it is loading
   and exactly one (DB_READY or DB_ERROR, never both) from then on; it posts
   it in init(), not in a request handler; the UI is ready only after
   DB_READY. *)
C10_ReadinessOnce ==
  /\ <>(Len(announced) = 1)
  /\ [](Len(announced) = IF initPc = "loading" THEN 0 ELSE 1)
  /\ [](isReady => announced = <<"DB_READY">>)
  /\ [][announced' # announced => (inbox' = inbox /\ last' = last)]_vars

C10_Witness ==
  /\ announced = <<"DB_ERROR">>
  /\ sqlite3
  /\ last.type = "IMPORT_CSV"

(* C11: the lifecycle only moves from loading to ready or from loading to
   failed, so failed and ready are never left; the engine handle db is set
   exactly in the ready state, it is set once, on the move to ready, and it
   is never reset to null afterwards. *)
C11_Lifecycle ==
  /\ [](db <=> initPc = "ready")
  /\ [][/\ initPc' # initPc => (initPc = "loading" /\ initPc' \in {"ready", "failed"})
        /\ db => db'
        /\ (~db /\ db') => (initPc = "loading" /\ initPc' = "ready")]_vars

C11_Witness ==
  /\ initPc = "ready"
  /\ db
  /\ last.type = "IMPORT_CSV"
  /\ ~last.dbNull
  /\ sent = MaxRequests

(* A structured failure response of the given kind *)
FailsWith(m, kind) ==
  m.type \in {"ERROR", "UPLOAD_STATUS"} /\ m.bytes = kind

(* self.onmessage takes the request at the head of the queue in this step *)
Handles(type) ==
  /\ inbox # <<>>
  /\ Head(inbox).type = type
  /\ inbox' = Tail(inbox)

(* C12: the handler of a commit request (UPLOAD_TO_SQLITE) does not throw and
   posts exactly one UPLOAD_STATUS response before it returns. *)
C12_UploadAnswered ==
  last.type = "UPLOAD_TO_SQLITE"
    => /\ ~last.threw
       /\ Len(last.posted) = 1
       /\ last.posted[1].type = "UPLOAD_STATUS"

(* C13: a commit request for an id that has no entry in the Staging Cache is
   answered by one DatasetMissing failure and changes neither the tables nor
   the cache. *)
C13_DatasetMissing ==
  [][(Handles("UPLOAD_TO_SQLITE") /\ Head(inbox).node.id \notin DOMAIN cache)
       => /\ tables' = tables
          /\ cache' = cache
          /\ Len(last'.posted) = 1
          /\ FailsWith(last'.posted[1], "DatasetMissing")]_vars

(* C14: a write whose target name is already a table of the catalog (a commit
   of that id, or an import that resolved to that name) is answered by one
   NameCollision failure and leaves the tables and the cache as they were. *)
C14_NameCollision ==
  [][(\/ Handles("UPLOAD_TO_SQLITE") /\ Head(inbox).node.id \in DOMAIN tables
      \/ Handles("IMPORT_CSV") /\ build = "sqlite" /\ last'.id \in DOMAIN tables)
       => /\ tables' = tables
          /\ cache' = cache
          /\ Len(last'.posted) = 1
          /\ FailsWith(last'.posted[1], "NameCollision")]_vars

(* C16: after an import that wrote its table (build "sqlite"), the table has
   one row per data row of the file, and in every row and column a cell that
   is missing or empty in the file is stored as null, never as the empty
   string, and every stored value that is not null equals the file's cell. *)
C16_CellRoundTrip ==
  (build = "sqlite" /\ last.type = "IMPORT_CSV" /\ last.posted # <<>>)
    => LET lines == last.req.fileBuffer
           header == NthNonEmptyLine(lines, 1)
           rows == tables[last.id].rows
       IN  /\ Len(rows) = DataRowCount(lines)
           /\ \A i \in 1..Len(rows) : \A j \in 1..Len(header) :
                LET line == NthNonEmptyLine(lines, i + 1)
                    original == IF j <= Len(line) THEN line[j] ELSE Blank
                IN  /\ rows[i][j] # Blank
                    /\ original = Blank <=> rows[i][j] = SqlNull
                    /\ rows[i][j] # SqlNull => rows[i][j] = original

C16_Witness ==
  /\ build = "sqlite"
  /\ last.type = "IMPORT_CSV"
  /\ last.posted # <<>>
  /\ last.id \in DOMAIN tables
  /\ Len(tables[last.id].rows) >= PreviewRows
  /\ tables[last.id].rows[2][2] = SqlNull
  /\ tables[last.id].rows[4][2] = SqlNull
  /\ tables[last.id].rows[3][2] = Cell(4, 2)

(* C17: an import of a file with no data row posts no preview record, creates
   no table and stages nothing; an import that posts a preview record adds
   exactly one entry to the Staging Cache. *)
C17_FailedImportLeavesNothing ==
  [][Handles("IMPORT_CSV")
       => IF DataRowCount(Head(inbox).fileBuffer) = 0
          THEN /\ \A k \in 1..Len(last'.posted) : last'.posted[k].type # "NODE_CREATED"
               /\ tables' = tables
               /\ cache' = cache
          ELSE last'.posted # <<>>
                 => Cardinality(DOMAIN cache') = Cardinality(DOMAIN cache) + 1]_vars

(* The failures of the error taxonomy *)
ErrorKinds ==
  {"EngineUnavailable", "ParseError", "NameCollision", "DatasetMissing", "WriteFailure"}

IsFailure(m) == m.type = "ERROR" \/ m.bytes \in ErrorKinds

(* C18: a drop request (DROP_TABLE) for a name that is not in the catalog,
   the first time and every time after, does not throw, is answered by a
   success (something is posted and nothing posted is a failure) and leaves
   all tables unchanged. *)
C18_DropIdempotent ==
  [][(Handles("DROP_TABLE") /\ Head(inbox).tableName \notin DOMAIN tables)
       => /\ ~last'.threw
          /\ tables' = tables
          /\ last'.posted # <<>>
          /\ \A k \in 1..Len(last'.posted) : ~IsFailure(last'.posted[k])]_vars

(* C19: a drop request handled while the engine is ready is answered, in the
   same handler, by a success confirmation and then a TABLE_LIST that lists
   the catalog as the drop left it, without the dropped name. *)
C19_DropRefreshesList ==
  [][(Handles("DROP_TABLE") /\ db)
       => /\ Len(last'.posted) >= 2
          /\ ~IsFailure(last'.posted[1])
          /\ last'.posted[Len(last'.posted)].type = "TABLE_LIST"
          /\ last'.posted[Len(last'.posted)].bytes = DOMAIN tables'
          /\ Head(inbox).tableName \notin DOMAIN tables']_vars

(* C20: the handler of an export request (EXPORT_DATABASE) does not throw; it
   posts exactly one message, an EngineUnavailable failure when db is null
   and a DATABASE_EXPORTED blob when the engine is ready. *)
C20_ExportNeedsReady ==
  last.type = "EXPORT_DATABASE"
    => /\ ~last.threw
       /\ Len(last.posted) = 1
       /\ IF last.dbNull
          THEN FailsWith(last.posted[1], "EngineUnavailable")
          ELSE last.posted[1].type = "DATABASE_EXPORTED"

(* C21: an export handled while the engine is ready posts one blob that is
   the catalog with its rows as it stands; no node whose id is not a table is
   part of it; the export changes neither the catalog nor the cache. *)
C21_ExportReflectsCatalog ==
  [][(Handles("EXPORT_DATABASE") /\ db)
       => /\ tables' = tables
          /\ cache' = cache
          /\ Len(last'.posted) = 1
          /\ last'.posted[1].type = "DATABASE_EXPORTED"
          /\ last'.posted[1].bytes = tables
          /\ \A i \in 1..Len(PostedNodes) :
               PostedNodes[i].id \notin DOMAIN tables
                 => PostedNodes[i].id \notin DOMAIN last'.posted[1].bytes]_vars

C21_Witness ==
  /\ build = "sqlite"
  /\ last.type = "EXPORT_DATABASE"
  /\ ~last.threw
  /\ DOMAIN last.posted[1].bytes # {}
  /\ \E i \in 1..Len(PostedNodes) : PostedNodes[i].id \notin DOMAIN tables

(* C22: a table-list request (LIST_TABLES) handled while the engine is ready
   is answered by one TABLE_LIST that names every table of the catalog, each
   exactly once, and nothing else. *)
C22_ListTablesIsCatalog ==
  [][(Handles("LIST_TABLES") /\ db)
       => /\ Len(last'.posted) = 1
          /\ last'.posted[1].type = "TABLE_LIST"
          /\ Range(last'.posted[1].bytes) = DOMAIN tables'
          /\ Len(last'.posted[1].bytes) = Cardinality(DOMAIN tables')]_vars

(* The request types the UI sends that the switch of self.onmessage has no
   case for *)
UnrecognizedTypes == {"UPLOAD_TO_SQLITE", "LIST_TABLES", "DROP_TABLE"}

(* C23: a request of a type the router has no case for, and an
   UPDATE_POSITION request, is ignored: the handler does not throw, posts
   nothing, and leaves db, sqlite3, the catalog and the cache unchanged. *)
C23_UnknownIgnored ==
  [][(/\ inbox # <<>>
      /\ Head(inbox).type \in UnrecognizedTypes \cup {"UPDATE_POSITION"}
      /\ inbox' = Tail(inbox))
       => /\ ~last'.threw
          /\ last'.posted = <<>>
          /\ outbox' = outbox
          /\ db' = db
          /\ sqlite3' = sqlite3
          /\ tables' = tables
          /\ cache' = cache]_vars

C23_Witness ==
  /\ last.type = "DROP_TABLE"
  /\ last.req.tableName \in DOMAIN tables
  /\ tables[last.req.tableName].rows # <<>>

(* C24: no handler invocation ends with an uncaught fault, and an invocation
   in which an engine call failed ends with one failure response of a
   declared kind. *)
C24_NoUncaughtFault ==
  last.type # "none"
    => /\ ~last.threw
       /\ last.failedAt > 0
            => (Len(last.posted) = 1 /\ IsFailure(last.posted[1]))

(* C25: requests are handled one at a time in their arrival order, and each
   handler's responses are posted, in the step that handles the request,
   behind everything posted before: the queue only loses its head to a
   handler and only grows at its tail, and the responses of the handled
   request are appended to the messages already posted. *)
C25_ArrivalOrder ==
  [][/\ inbox' # inbox
          => \/ /\ inbox # <<>>
                /\ inbox' = Tail(inbox)
                /\ last'.req = Head(inbox)
                /\ outbox' = outbox \o last'.posted
             \/ /\ Len(inbox') = Len(inbox) + 1
                /\ SubSeq(inbox', 1, Len(inbox)) = inbox
                /\ last' = last
                /\ outbox' = outbox
     /\ last' # last => (inbox # <<>> /\ inbox' = Tail(inbox))]_vars

C25_Witness ==
  /\ Len(outbox) = 2
  /\ outbox[1].type = "NODE_CREATED"
  /\ outbox[2].type = "DATABASE_EXPORTED"
  /\ last.type = "EXPORT_DATABASE"
  /\ inbox = <<>>

(* The positions of a statement in a sequence of engine calls *)
CallsOf(calls, stmt) == {k \in 1..Len(calls) : calls[k][1] = stmt}

(* C26: in the engine calls of an import (build "sqlite") there is no INSERT
   without a BEGIN; when the table was created there is exactly one BEGIN;
   after it come the inserts of rows 1, 2, 3, ... in this order and nothing
   else, then exactly one of COMMIT and ROLLBACK, which is the last call;
   COMMIT comes only after all rows were inserted without error, ROLLBACK
   right after the insert that failed; the table then holds the rows of the
   inserts the transaction kept. *)
C26_TransactionProtocol ==
  (build = "sqlite" /\ last.type = "IMPORT_CSV")
    => LET calls == last.calls
           begins == CallsOf(calls, "BEGIN")
           inserts == CallsOf(calls, "INSERT")
           ends == CallsOf(calls, "COMMIT") \cup CallsOf(calls, "ROLLBACK")
           N == DataRowCount(last.req.fileBuffer)
       IN  /\ inserts # {} => begins # {}
           /\ (\E k \in 1..Len(calls) : calls[k] = Call("CREATE", 0, TRUE))
                => Cardinality(begins) = 1
           /\ begins # {}
                => LET b == CHOOSE k \in begins : TRUE
                   IN  /\ Cardinality(begins) = 1
                       /\ ends = {Len(calls)}
                       /\ inserts = (b + 1)..(Len(calls) - 1)
                       /\ \A k \in inserts : calls[k][2] = k - b
                       /\ \A k \in inserts : calls[k][3] <=> (k < Len(calls) - 1
                                                            \/ calls[Len(calls)][1] = "COMMIT")
                       /\ calls[Len(calls)][1] = "COMMIT" => Cardinality(inserts) = N
                       /\ Len(tables[last.id].rows)
                            = IF calls[Len(calls)][1] = "COMMIT" THEN N ELSE 0

C26_Witness ==
  /\ build = "sqlite"
  /\ last.type = "IMPORT_CSV"
  /\ Len(last.calls) > PreviewRows
  /\ last.calls[Len(last.calls)][1] = "ROLLBACK"

(* C27: after the bulk write of an import failed on a row and was rolled
   back, the table the handler created is still in the catalog, with the
   file's header as its columns and no row, and the handler has posted
   nothing: no node and no success. *)
C27_EmptyTableStays ==
  (last.type = "IMPORT_CSV" /\ last.failedAt > 0)
    => /\ last.id \in DOMAIN tables
       /\ tables[last.id]
            = [cols |-> TextSchema(NthNonEmptyLine(last.req.fileBuffer, 1)),
               rows |-> <<>>]
       /\ last.posted = <<>>
       /\ last.calls[Len(last.calls)] = Call("ROLLBACK", 0, TRUE)

C27_Witness ==
  /\ last.type = "IMPORT_CSV"
  /\ last.failedAt = 1
  /\ last.id \in DOMAIN tables
  /\ Len(tables[last.id].cols) = 2
  /\ last.posted = <<>>

(* The failure a write request must be answered with, by the order of the
   preconditions: engine ready, dataset staged (a commit only), name free *)
ExpectedFailure(dbNull, staged, nameTaken) ==
  IF dbNull THEN "EngineUnavailable"
  ELSE IF ~staged THEN "DatasetMissing"
  ELSE IF nameTaken THEN "NameCollision"
  ELSE "none"

(* C28: a write request (a commit, or an import of the build that writes at
   import) for which a precondition fails is answered by one failure, the
   first in the order EngineUnavailable, DatasetMissing, NameCollision, and
   changes neither the catalog nor the cache. *)
C28_PreconditionOrder ==
  [][LET expected ==
           IF Handles("UPLOAD_TO_SQLITE")
           THEN ExpectedFailure(~db, Head(inbox).node.id \in DOMAIN cache,
                                Head(inbox).node.id \in DOMAIN tables)
           ELSE IF Handles("IMPORT_CSV") /\ build = "sqlite"
           THEN ExpectedFailure(~db, TRUE, last'.id \in DOMAIN tables)
           ELSE "none"
     IN  expected # "none"
           => /\ Len(last'.posted) = 1
              /\ FailsWith(last'.posted[1], expected)
              /\ tables' = tables
              /\ cache' = cache]_vars

(* A file that has a header line *)
HasHeader(lines) == \E p \in 1..Len(lines) : lines[p] # <<Blank>>

(* C29: the node of an imported file with H header cells has a schema of H
   entries, entry i being header i with type TEXT; where the import wrote a
   table, its columns are the same list, every row has H values, and value i
   of a row is cell i of its line of the file (or null). *)
C29_ColumnOrder ==
  (last.type = "IMPORT_CSV" /\ last.posted # <<>> /\ HasHeader(last.req.fileBuffer))
    => LET lines == last.req.fileBuffer
           header == NthNonEmptyLine(lines, 1)
           node == last.posted[1].node
       IN  /\ Len(node.schema) = Len(header)
           /\ \A i \in 1..Len(header) :
                node.schema[i].name = header[i] /\ node.schema[i].type = "TEXT"
           /\ build = "sqlite"
                => /\ tables[last.id].cols = node.schema
                   /\ \A r \in 1..Len(tables[last.id].rows) :
                        /\ Len(tables[last.id].rows[r]) = Len(header)
                        /\ \A i \in 1..Len(header) :
                             tables[last.id].rows[r][i] # SqlNull
                               => /\ i <= Len(NthNonEmptyLine(lines, r + 1))
                                  /\ tables[last.id].rows[r][i]
                                       = NthNonEmptyLine(lines, r + 1)[i]

C29_Witness ==
  /\ build = "sqlite"
  /\ last.type = "IMPORT_CSV"
  /\ last.posted # <<>>
  /\ Len(last.posted[1].node.schema) = 2
  /\ last.id \in DOMAIN tables
  /\ Len(tables[last.id].rows) = 1
  /\ tables[last.id].rows[1] # <<SqlNull, SqlNull>>

(* C30: the rowCount of the node an import posts after it wrote its table
   (build "sqlite") is the number of rows the table named by the node's id
   holds when the node is posted; the node carries no in-memory rows. *)
C30_RowCountFromEngine ==
  (build = "sqlite" /\ last.type = "IMPORT_CSV" /\ last.posted # <<>>)
    => /\ last.posted[1].node.id \in DOMAIN tables
       /\ last.posted[1].node.rowCount = Len(tables[last.posted[1].node.id].rows)
       /\ ~last.posted[1].node.hasData

C30_Witness ==
  /\ build = "sqlite"
  /\ last.type = "IMPORT_CSV"
  /\ last.posted # <<>>
  /\ last.posted[1].node.rowCount = MaxLines - 1
  /\ Len(tables[last.id].rows) = MaxLines - 1

(* C31: the handler of CREATE_TEST_TABLE posts exactly one NODE_CREATED whose
   node has the schema X, Y, Z, all TEXT, a rowCount of 5 and 5 data rows, and
   it leaves the catalog as it was. *)
C31_SampleNode ==
  [][Handles("CREATE_TEST_TABLE")
       => /\ tables' = tables
          /\ Len(last'.posted) = 1
          /\ last'.posted[1].type = "NODE_CREATED"
          /\ last'.posted[1].node.schema = TextSchema(XYZ)
          /\ last'.posted[1].node.rowCount = SampleRows
          /\ last'.posted[1].node.hasData
          /\ Len(last'.posted[1].node.data) = SampleRows]_vars

(* C33: every table of the catalog before an IMPORT_CSV is handled is in the
   catalog afterwards, with the same columns and rows. *)
C33_ImportKeepsCommittedData ==
  [][Handles("IMPORT_CSV")
       => \A n \in DOMAIN tables : n \in DOMAIN tables' /\ tables'[n] = tables[n]]_vars

(* The requests that need the engine *)
EngineRequests ==
  {"IMPORT_CSV", "CREATE_TEST_TABLE", "UPLOAD_TO_SQLITE", "EXPORT_DATABASE",
   "LIST_TABLES", "DROP_TABLE"}

(* C34: the UI posts a request that needs the engine only once it has seen
   DB_READY (isReady is true). *)
C34_NoRequestBeforeReady ==
  [][(Len(inbox') > Len(inbox) /\ inbox'[Len(inbox')].type \in EngineRequests)
       => isReady]_vars

(* C37: every NODE_CREATED the worker posts carries a schema and a data array
   of min(5, rowCount) rows. *)
C37_NodeCarriesData ==
  \A k \in 1..Len(outbox) :
    outbox[k].type = "NODE_CREATED"
      => /\ outbox[k].node.hasData
         /\ Len(outbox[k].node.data) = Min(PreviewRows, outbox[k].node.rowCount)
         /\ DOMAIN outbox[k].node.schema = 1..Len(outbox[k].node.schema)

(* The nodes of the store whose isUploadedToSQLite is true *)
UploadedNodes == {i \in 1..Len(nodes) : uploaded[i]}

(* C35: whatever NODE_CREATED, UPLOAD_STATUS and TABLE_LIST messages the UI
   has handled, uploadedTablesCount is the number of nodes whose
   isUploadedToSQLite is true. *)
C35_CountIsUploadedNodes ==
  uploadedTablesCount = Cardinality(UploadedNodes)

(* C36: a node of the store is marked isUploadedToSQLite exactly when the
   catalog has a table named by its id. *)
C36_MarkedIffInCatalog ==
  \A i \in 1..Len(nodes) : uploaded[i] <=> nodes[i].id \in DOMAIN tables

(* The requests appended to the queue in this step *)
Appended == SubSeq(inbox', Len(inbox) + 1, Len(inbox'))

(* The selected sheets that have a row left after the skipped ones, in the
   order of the workbook *)
SheetsWithRows ==
  LET WithRows(s) == Len(SheetData(s)) > rowsToIgnore
  IN  SelectSeq(sheetsToImport, WithRows)

(* C32: an import from the modal with rowsToIgnore = k posts, for each
   selected sheet with more than k rows and in order, exactly one IMPORT_CSV
   named after the sheet whose text reads, with header: true, as the header
   row k and every later row as a data row; it posts nothing else. *)
C32_SheetImport ==
  [][(isXlsModalOpen /\ inbox' # inbox)
       => /\ Len(Appended) = Len(SheetsWithRows)
          /\ \A i \in 1..Len(SheetsWithRows) :
               LET rows == SheetData(SheetsWithRows[i])
                   header == rows[rowsToIgnore + 1]
                   parsed == PapaParse(Appended[i].fileBuffer)
               IN  /\ Appended[i].type = "IMPORT_CSV"
                   /\ Appended[i].tableName = SheetName(SheetsWithRows[i])
                   /\ parsed.fields = header
                   /\ parsed.data =
                        [r \in 1..(Len(rows) - rowsToIgnore - 1) |->
                           RowObject(header, rows[rowsToIgnore + 1 + r])]]_vars

(* C38: every request an import from the modal posts is for a sheet whose
   checkbox shows a tick in this opening of the modal. *)
C38_OnlyCheckedSheets ==
  [][isXlsModalOpen
       => \A i \in 1..Len(Appended) : Appended[i].tableName \in checked]_vars

=============================================================================
